---- MODULE Spec2Model ----
(***************************************************************************)
(* Model of the Terminator AutoLogger plugin (src/autologger.py).           *)
(*                                                                          *)
(* Text is modelled as sequences of characters; a character is a string.    *)
(* ASCII characters are written as themselves; the non-ASCII characters of  *)
(* the string literals in the source are written as their code point in     *)
(* hexadecimal ("E2", "201D", ...) exactly as they are stored in the file.  *)
(***************************************************************************)
EXTENDS Integers, Sequences, FiniteSets, TLC

\* ------------------------------------------------------------------------
\* Bounds of the model
\* ------------------------------------------------------------------------
\* capacity of write_queue and of sanitize_queue (1000 in the source)
QueueCap == 2
\* largest number of rows a terminal buffer grows to, where the filter is
\* studied and where the pipelines are
MaxRows == 3
PipeRows == 2
\* largest number of timed-out sanitizer processes still running
MaxOrphans == 1
\* largest number of surfaces the host creates over a run
MaxSurfaces == 2

\* ------------------------------------------------------------------------
\* Characters and string literals of the source
\* ------------------------------------------------------------------------
NL == "\n"
Whitespace == {" ", "\t", NL}
Digits == {"0", "1", "2", "3", "4", "5", "6", "7", "8", "9"}

\* the literal of lines 243, 376, 381, 422
PromptMarker == <<"E2", "201D", "201D", "E2", "201D", "20AC", "#">>
\* the literal of lines 246, 247
PromptTop == <<"E2", "201D", "152", "E2", "201D", "20AC", "E2", "201D", "20AC">>
\* the second literal of line 247
Skull == <<"F0", "178", "2019", "20AC">>
\* the character class of the regular expression of lines 391, 405
ErrorGlyphs == {"E2", "A8", "AF", "153", "2014", "C3", "2DC", "152"}
DollarSpace == <<"$", " ">>
HashSpace == <<"#", " ">>
ContextWord == <<"c", "o", "n", "t", "e", "x", "t">>
MarkerPrefix == <<"=", "=", "=">>

\* ------------------------------------------------------------------------
\* Python string operations
\* ------------------------------------------------------------------------
SetMin(S) == CHOOSE x \in S : \A y \in S : x <= y
SetMax(S) == CHOOSE x \in S : \A y \in S : x >= y

RECURSIVE LStrip(_)
LStrip(s) ==
    IF s = <<>> THEN s
    ELSE IF Head(s) \in Whitespace THEN LStrip(Tail(s)) ELSE s

RECURSIVE RStrip(_)
RStrip(s) ==
    IF s = <<>> THEN s
    ELSE IF s[Len(s)] \in Whitespace THEN RStrip(SubSeq(s, 1, Len(s) - 1)) ELSE s

Strip(s) == RStrip(LStrip(s))

StartsWith(s, p) == Len(p) <= Len(s) /\ SubSeq(s, 1, Len(p)) = p

EndsWith(s, p) == Len(p) <= Len(s) /\ SubSeq(s, Len(s) - Len(p) + 1, Len(s)) = p

Occurrences(s, p) ==
    {i \in 1..(Len(s) - Len(p) + 1) : SubSeq(s, i, i + Len(p) - 1) = p}

Contains(s, p) == Occurrences(s, p) # {}

\* s.split(p, 1)[-1]
AfterFirst(s, p) ==
    IF Contains(s, p)
    THEN SubSeq(s, SetMin(Occurrences(s, p)) + Len(p), Len(s))
    ELSE s

\* s.rsplit(p, 1)[1], for s that contains p
AfterLast(s, p) == SubSeq(s, SetMax(Occurrences(s, p)) + Len(p), Len(s))

\* s[n:]
DropFirst(s, n) == SubSeq(s, n + 1, Len(s))

\* s[:-n]
DropLast(s, n) == SubSeq(s, 1, Len(s) - n)

IsDigit(s) == s # <<>> /\ \A i \in 1..Len(s) : s[i] \in Digits

\* re.match(r'^\s*\d+\s*[...]\s*$', s)
MatchesErrorPattern(s) ==
    LET t == Strip(s)
    IN  /\ t # <<>>
        /\ t[Len(t)] \in ErrorGlyphs
        /\ IsDigit(RStrip(DropLast(t, 1)))

\* text.split('\n')
RECURSIVE SplitLines(_)
SplitLines(text) ==
    IF NL \notin {text[i] : i \in 1..Len(text)} THEN <<text>>
    ELSE LET k == SetMin({i \in 1..Len(text) : text[i] = NL})
         IN  <<SubSeq(text, 1, k - 1)>> \o SplitLines(SubSeq(text, k + 1, Len(text)))

\* '\n'.join(lines) + '\n'
RECURSIVE JoinLines(_)
JoinLines(lines) ==
    IF lines = <<>> THEN <<NL>>
    ELSE IF Len(lines) = 1 THEN Head(lines) \o <<NL>>
    ELSE Head(lines) \o <<NL>> \o JoinLines(Tail(lines))

\* ------------------------------------------------------------------------
\* Line classifiers
\* ------------------------------------------------------------------------
looks_like_prompt(line_content) ==
    IF line_content = <<>> THEN FALSE
    ELSE LET line == Strip(line_content)
         IN  \/ StartsWith(line, PromptMarker)
             \/ EndsWith(line, DollarSpace)
             \/ EndsWith(line, HashSpace)
             \/ StartsWith(line, PromptTop)
             \/ (Contains(line, PromptTop) /\ Contains(line, Skull))

is_partial_command(line_content) ==
    IF line_content = <<>> THEN TRUE
    ELSE IF looks_like_prompt(line_content) THEN FALSE
    ELSE LET stripped == Strip(line_content)
         IN  \/ (Len(stripped) <= 2 /\ ~IsDigit(stripped))
             \/ EndsWith(stripped, <<"_">>)
             \/ EndsWith(stripped, <<"|">>)

SuffixIsEmptyPrompt(stripped, prompt_suffix) ==
    /\ Contains(stripped, prompt_suffix)
    /\ LET after_prompt == Strip(AfterLast(stripped, prompt_suffix))
       IN  after_prompt = <<>> \/ MatchesErrorPattern(after_prompt)

\* an empty-prompt test that knows only the prompts ending in "$ " and "# "
is_empty_prompt_suffix_only(line_content) ==
    IF line_content = <<>> THEN TRUE
    ELSE LET stripped == Strip(line_content)
         IN  \/ SuffixIsEmptyPrompt(stripped, DollarSpace)
             \/ SuffixIsEmptyPrompt(stripped, HashSpace)

is_empty_prompt(line_content) ==
    IF line_content = <<>> THEN TRUE
    ELSE LET stripped == Strip(line_content)
         IN  \/ stripped = PromptMarker
             \/ /\ StartsWith(stripped, PromptMarker)
                /\ LET after_prompt == Strip(DropFirst(stripped, 3))
                   IN  after_prompt = <<>> \/ MatchesErrorPattern(after_prompt)
             \/ SuffixIsEmptyPrompt(stripped, DollarSpace)
             \/ SuffixIsEmptyPrompt(stripped, HashSpace)

is_context_command(line_content) ==
    IF line_content = <<>> THEN FALSE
    ELSE LET stripped == Strip(line_content)
         IN  IF looks_like_prompt(stripped)
             THEN LET cmd_part ==
                          IF Contains(stripped, PromptMarker)
                          THEN Strip(AfterFirst(stripped, PromptMarker))
                          ELSE IF EndsWith(stripped, DollarSpace)
                               THEN Strip(DropLast(stripped, Len(DollarSpace)))
                          ELSE IF EndsWith(stripped, HashSpace)
                               THEN Strip(DropLast(stripped, Len(HashSpace)))
                          ELSE <<>>
                  IN  StartsWith(cmd_part, ContextWord)
             ELSE StartsWith(stripped, ContextWord)


\* ------------------------------------------------------------------------
\* The filter loop (lines 308-329, repeated at lines 487-507)
\* ------------------------------------------------------------------------
\* One iteration of the loop for lines[i]; acc = [lines, kept, skip] holds
\* filtered_lines, the indices of the lines appended to it, and
\* skip_until_prompt.
\* a loop that leaves the skipping state on a prompt line without keeping it
FilterLineDropsPrompt(acc, line, i) ==
    LET stripped == Strip(line)
    IN  IF is_context_command(stripped)
        THEN [acc EXCEPT !.skip = TRUE]
        ELSE IF acc.skip
        THEN IF looks_like_prompt(stripped)
             THEN [acc EXCEPT !.skip = FALSE]
             ELSE acc
        ELSE IF /\ stripped # <<>>
                /\ ~StartsWith(stripped, MarkerPrefix)
                /\ ~is_empty_prompt(stripped)
                /\ ~is_partial_command(stripped)
             THEN [acc EXCEPT !.lines = Append(acc.lines, RStrip(line)),
                              !.kept = acc.kept \cup {i}]
             ELSE acc

FilterLine(acc, line, i) ==
    LET stripped == Strip(line)
    IN  IF is_context_command(stripped)
        THEN [acc EXCEPT !.skip = TRUE]
        ELSE IF acc.skip
        THEN IF looks_like_prompt(stripped)
             THEN IF ~is_empty_prompt(stripped)
                  THEN [lines |-> Append(acc.lines, RStrip(line)),
                        kept |-> acc.kept \cup {i}, skip |-> FALSE]
                  ELSE [acc EXCEPT !.skip = FALSE]
             ELSE acc
        ELSE IF /\ stripped # <<>>
                /\ ~StartsWith(stripped, MarkerPrefix)
                /\ ~is_empty_prompt(stripped)
                /\ ~is_partial_command(stripped)
             THEN [acc EXCEPT !.lines = Append(acc.lines, RStrip(line)),
                              !.kept = acc.kept \cup {i}]
             ELSE acc

RECURSIVE FilterFrom(_, _, _)
FilterFrom(acc, lines, i) ==
    IF i > Len(lines) THEN acc
    ELSE FilterFrom(FilterLine(acc, lines[i], i), lines, i + 1)

FilterPass(lines) ==
    FilterFrom([lines |-> <<>>, kept |-> {}, skip |-> FALSE], lines, 1)

\* the record of a filter pass: its input, the indices of the lines it kept,
\* the surface and the row of the first line
NotePass(t, start_row, lines, pass) ==
    [input |-> lines, kept |-> pass.kept, skip |-> pass.skip,
     surface |-> t, start_row |-> start_row]
NoPass == [input |-> <<>>, kept |-> {}, skip |-> FALSE, surface |-> 0, start_row |-> 0]

\* ------------------------------------------------------------------------
\* State
\* ------------------------------------------------------------------------
VARIABLES
    \* host: terminator.terminals, and per surface its PTY, text buffer and
    \* cursor row (rows are numbered from 0, buf[t][r + 1] is row r)
    terminals, pty, buf, cur,
    \* AutoLogger fields
    loggers, terminal_ids, terminal_counter, pty_map,
    write_queue, sanitize_queue, shutdown_writer,
    \* _async_writer: position, item in hand, open_files; the file system;
    \* history: the paths for which an open or a write has failed
    w_pc, w_item, open_files, files, faulted,
    \* _async_sanitizer: position, item in hand; the sanitizer processes that
    \* are running; what they have written to the sanitized files
    s_pc, s_item, procs, sfiles,
    \* unload: position
    u_pc,
    \* history: per surface and row, the number of chunks accepted by
    \* write_queue that include the row since its text last changed
    emitted,
    \* history: per path, the texts accepted by write_queue and by
    \* sanitize_queue; the sanitizer invocations and how each ended
    accepted, s_accepted, invoked,
    \* history: the lines and the result of the latest filter pass
    last_pass

hostVars == <<terminals, pty, buf, cur>>
uiVars == <<loggers, terminal_ids, terminal_counter, pty_map>>
queueVars == <<write_queue, sanitize_queue>>
writerVars == <<w_pc, w_item, open_files, files, faulted>>
sanitizerVars == <<s_pc, s_item, procs, sfiles, invoked>>
histVars == <<emitted, accepted, s_accepted, last_pass>>
vars == <<terminals, pty, buf, cur, loggers, terminal_ids, terminal_counter,
          pty_map, write_queue, sanitize_queue, shutdown_writer,
          w_pc, w_item, open_files, files, faulted, s_pc, s_item, procs, sfiles,
          u_pc, emitted, accepted, s_accepted, invoked, last_pass>>

Surfaces == 1..MaxSurfaces
\* the sentinel unload puts on the queues
None == <<>>
\* what ptsname() gives for a surface: a path, NULL, or an exception
NoName == <<"NULL", 0>>
Raises == <<"raise", 0>>
PtsDir == "/dev/pts/"
\* get_row_count() of the host widget
RowCount == 24
\* the banner of line 473 (the timestamp is fixed text here)
Banner == MarkerPrefix \o <<" ", "T", " ">> \o MarkerPrefix \o <<NL>>

Put(f, k, v) == [x \in DOMAIN f \cup {k} |-> IF x = k THEN v ELSE f[x]]
Restrict(f, S) == IF S = {} THEN <<>> ELSE [x \in S |-> f[x]]

\* the UI thread runs one handler at a time; unload occupies it from its
\* call to its return
UIFree == u_pc \in {"idle", "returned"}

\* ------------------------------------------------------------------------
\* Host queries
\* ------------------------------------------------------------------------
RECURSIVE RowsText(_, _, _)
RowsText(rows, lo, hi) ==
    IF lo > hi THEN <<>>
    ELSE rows[lo] \o <<NL>> \o RowsText(rows, lo + 1, hi)

\* _get_content(vte, row_start, 0, row_end, column_count); ok = FALSE is a
\* failing or empty get_text_range
get_content(t, row_start, row_end, ok) ==
    IF ~ok THEN <<>>
    ELSE LET hi == IF row_end + 1 < Len(buf[t]) THEN row_end + 1 ELSE Len(buf[t])
         IN  RowsText(buf[t], row_start + 1, hi)

\* ------------------------------------------------------------------------
\* Terminal identity
\* ------------------------------------------------------------------------
\* the f-strings of lines 181, 183, 187, 191; the session timestamp is the
\* same in every identifier of a run and is left out
FormatPtsId(pty_fd, pts_num) == <<"terminal", pty_fd, "pts", pts_num>>
FormatId(n) == <<"terminal", n>>

\* the identifier built for a PTY path that is not in the map yet
NewTerminalId(pty_fd, pts_name) ==
    IF pts_name[1] = PtsDir
    THEN FormatPtsId(pty_fd, pts_name[2])
    ELSE FormatId(pty_fd)

\* _get_terminal_id on the state st of the UI thread; the identifier is
\* st'.terminal_ids[t]
get_terminal_id(st, t) ==
    IF t \in DOMAIN st.terminal_ids THEN st
    ELSE IF pty[t].name = Raises
    THEN [st EXCEPT !.terminal_counter = @ + 1,
                    !.terminal_ids = Put(@, t, FormatId(st.terminal_counter + 1))]
    ELSE IF pty[t].name = NoName
    THEN [st EXCEPT !.terminal_ids = Put(@, t, FormatId(pty[t].fd))]
    ELSE IF pty[t].name \in DOMAIN st.pty_map
    THEN [st EXCEPT !.terminal_ids = Put(@, t, st.pty_map[pty[t].name])]
    ELSE LET terminal_id == NewTerminalId(pty[t].fd, pty[t].name)
         IN  [st EXCEPT !.pty_map = Put(@, pty[t].name, terminal_id),
                        !.terminal_ids = Put(@, t, terminal_id)]

OriginalLog(terminal_id) == <<"original", terminal_id>>
SanitizedLog(terminal_id) == <<"sanitized", terminal_id>>

\* ------------------------------------------------------------------------
\* Queues
\* ------------------------------------------------------------------------
\* a queue that takes one item more than its capacity
FullAboveCap(q) == Len(q) > QueueCap

\* queue.put(item, timeout=0.1) raises queue.Full on a full queue
Full(q) == Len(q) >= QueueCap

\* the rows of surface t that a chunk accepted by write_queue includes:
\* line i of the text read from row start_row on is row start_row + i - 1
NoteEmitted(em, t, start_row, kept) ==
    [em EXCEPT ![t] = [r \in DOMAIN em[t] |->
        IF (r - start_row) \in kept /\ em[t][r] < 2 THEN em[t][r] + 1 ELSE em[t][r]]]

NoteAccepted(acc, path, text) ==
    Put(acc, path, (IF path \in DOMAIN acc THEN acc[path] ELSE <<>>) \o <<text>>)

\* two puts that are tried independently of each other
PutEach(st, path, spath, text, t, start_row, kept) ==
    LET st1 == IF Full(st.wq) THEN [st EXCEPT !.full = TRUE]
               ELSE [st EXCEPT !.wq = Append(@, <<path, text>>),
                               !.emitted = NoteEmitted(@, t, start_row, kept),
                               !.accepted = NoteAccepted(@, path, text)]
    IN  IF Full(st.sq) THEN [st1 EXCEPT !.full = TRUE]
        ELSE [st1 EXCEPT !.sq = Append(@, <<text, spath>>),
                         !.s_accepted = NoteAccepted(@, spath, text)]

\* write_queue.put((path, text)); sanitize_queue.put((text, spath)) inside
\* one try block: the first queue.Full abandons the rest
PutBoth(st, path, spath, text, t, start_row, kept) ==
    IF Full(st.wq) THEN [st EXCEPT !.full = TRUE]
    ELSE LET st1 == [st EXCEPT !.wq = Append(@, <<path, text>>),
                               !.emitted = NoteEmitted(@, t, start_row, kept),
                               !.accepted = NoteAccepted(@, path, text)]
         IN  IF Full(st.sq) THEN [st1 EXCEPT !.full = TRUE]
             ELSE [st1 EXCEPT !.sq = Append(@, <<text, spath>>),
                              !.s_accepted = NoteAccepted(@, spath, text)]

\* ------------------------------------------------------------------------
\* _start_logging and _check_for_new_terminals
\* ------------------------------------------------------------------------
\* q = [cursor, content]: whether get_cursor_position and get_text_range
\* answer
\* lines 451-515, for a surface that has no session record
start_session(st, t, q) ==
    LET st1 == get_terminal_id(st, t)
        terminal_id == st1.terminal_ids[t]
        original_logfile == OriginalLog(terminal_id)
        sanitized_logfile == SanitizedLog(terminal_id)
        initial_row == IF q.cursor THEN cur[t] ELSE 0
        st2 == [st1 EXCEPT !.loggers = Put(@, t,
                   [filepath |-> original_logfile,
                    sanitized_filepath |-> sanitized_logfile,
                    terminal_id |-> terminal_id,
                    last_row |-> initial_row])]
    IN  IF original_logfile \in DOMAIN files /\ files[original_logfile] # <<>>
        THEN st2
        ELSE
        LET st3 == PutBoth([st2 EXCEPT !.full = FALSE], original_logfile,
                           sanitized_logfile, Banner, t, 0, {})
            initial_content == get_content(t, 0, RowCount, q.content)
            pass == FilterPass(SplitLines(initial_content))
            st4 == IF st3.full \/ initial_content = <<>> THEN st3
                   ELSE [st3 EXCEPT !.last_pass =
                            NotePass(t, 0, SplitLines(initial_content), pass)]
        IN  IF st3.full \/ initial_content = <<>> \/ pass.lines = <<>>
            THEN st4
            ELSE PutBoth(st4, original_logfile, sanitized_logfile,
                         JoinLines(pass.lines), t, 0, pass.kept)

\* a _start_logging without the test of lines 448-449
start_logging_always(st, t, q) == start_session(st, t, q)

\* the handler is entered for a surface only through the test of line 202,
\* and begins with the same test (lines 448-449)
start_logging(st, t, q) ==
    IF t \in DOMAIN st.loggers THEN st ELSE start_session(st, t, q)

RECURSIVE CheckFrom(_, _, _)
CheckFrom(st, i, q) ==
    IF i > Len(terminals) THEN st
    ELSE CheckFrom(start_logging(st, terminals[i], q), i + 1, q)

UIState ==
    [loggers |-> loggers, terminal_ids |-> terminal_ids,
     terminal_counter |-> terminal_counter, pty_map |-> pty_map,
     wq |-> write_queue, sq |-> sanitize_queue,
     emitted |-> emitted, accepted |-> accepted, s_accepted |-> s_accepted,
     last_pass |-> last_pass, full |-> FALSE]

SetUIState(st) ==
    /\ loggers' = st.loggers
    /\ terminal_ids' = st.terminal_ids
    /\ terminal_counter' = st.terminal_counter
    /\ pty_map' = st.pty_map
    /\ write_queue' = st.wq
    /\ sanitize_queue' = st.sq
    /\ emitted' = st.emitted
    /\ accepted' = st.accepted
    /\ s_accepted' = st.s_accepted
    /\ last_pass' = st.last_pass

QueryOutcomes == [cursor : BOOLEAN, content : BOOLEAN]

\* the 500 ms timer of line 54; it is never removed
check_for_new_terminals(q) ==
    /\ UIFree
    /\ SetUIState(CheckFrom(UIState, 1, q))
    /\ UNCHANGED <<hostVars, shutdown_writer, writerVars, sanitizerVars, u_pc>>

\* ------------------------------------------------------------------------
\* _on_contents_changed
\* ------------------------------------------------------------------------
ChangeOutcomes == [cursor : BOOLEAN, line : BOOLEAN, region : BOOLEAN]

IsOpen(t) == \E i \in 1..Len(terminals) : terminals[i] = t

\* a handler without the early return of lines 287-288
contents_changed_any_row(st, t, q) ==
    IF t \notin DOMAIN st.loggers \/ ~q.cursor THEN st
    ELSE
    LET current_row == cur[t]
        logger_info == st.loggers[t]
        last_row == logger_info.last_row
        current_line == get_content(t, current_row, current_row, q.line)
    IN  IF current_line = <<>> \/ ~looks_like_prompt(Strip(current_line))
        THEN st
        ELSE
        LET start_row == IF last_row >= 0 THEN last_row ELSE 0
            new_content == get_content(t, start_row, current_row, q.region)
            pass == FilterPass(SplitLines(new_content))
            st0 == IF new_content = <<>> THEN st
                   ELSE [st EXCEPT !.last_pass =
                            NotePass(t, start_row, SplitLines(new_content), pass)]
            st1 == IF new_content = <<>> \/ pass.lines = <<>> THEN st0
                   ELSE PutBoth(st0, logger_info.filepath,
                                logger_info.sanitized_filepath,
                                JoinLines(pass.lines), t, start_row, pass.kept)
        IN  [st1 EXCEPT !.loggers[t].last_row = current_row]

\* the state of the UI thread after the handler ran for surface t
contents_changed(st, t, q) ==
    IF t \notin DOMAIN st.loggers \/ ~q.cursor THEN st
    ELSE
    LET current_row == cur[t]
        logger_info == st.loggers[t]
        last_row == logger_info.last_row
        current_line == get_content(t, current_row, current_row, q.line)
    IN  IF current_row <= last_row THEN st
        ELSE IF current_line = <<>> \/ ~looks_like_prompt(Strip(current_line))
        THEN st
        ELSE
        LET start_row == IF last_row >= 0 THEN last_row ELSE 0
            new_content == get_content(t, start_row, current_row, q.region)
            pass == FilterPass(SplitLines(new_content))
            st0 == IF new_content = <<>> THEN st
                   ELSE [st EXCEPT !.last_pass =
                            NotePass(t, start_row, SplitLines(new_content), pass)]
            st1 == IF new_content = <<>> \/ pass.lines = <<>> THEN st0
                   ELSE PutBoth(st0, logger_info.filepath,
                                logger_info.sanitized_filepath,
                                JoinLines(pass.lines), t, start_row, pass.kept)
        IN  [st1 EXCEPT !.loggers[t].last_row = current_row]

on_contents_changed(t, q) ==
    /\ UIFree
    /\ IsOpen(t)
    /\ t \in DOMAIN loggers
    /\ SetUIState(contents_changed(UIState, t, q))
    /\ UNCHANGED <<hostVars, shutdown_writer, writerVars, sanitizerVars, u_pc>>

\* ------------------------------------------------------------------------
\* The host: surfaces appear and disappear, the shell and the user write
\* ------------------------------------------------------------------------
\* a new surface on the PTY (name, fd) showing the rows of initial
HostOpen(name, fd, initial) ==
    /\ UIFree
    /\ \A i \in 1..Len(terminals) :
          pty[terminals[i]].fd = fd => pty[terminals[i]].name = name
    /\ LET t == Cardinality(DOMAIN buf) + 1
       IN  /\ terminals' = Append(terminals, t)
           /\ pty' = Put(pty, t, [name |-> name, fd |-> fd])
           /\ buf' = Put(buf, t, initial)
           /\ cur' = Put(cur, t, Len(initial) - 1)
           /\ emitted' = Put(emitted, t, [r \in 1..Len(initial) |-> 0])
    /\ UNCHANGED <<uiVars, queueVars, shutdown_writer, writerVars,
                   sanitizerVars, u_pc, accepted, s_accepted, last_pass>>

HostClose(t) ==
    /\ UIFree
    /\ IsOpen(t)
    /\ terminals' = SelectSeq(terminals, LAMBDA u : u # t)
    /\ UNCHANGED <<pty, buf, cur, uiVars, queueVars, shutdown_writer,
                   writerVars, sanitizerVars, u_pc, histVars>>

\* the text of the cursor row becomes line (typing, echo, a prompt drawn)
HostType(t, line) ==
    /\ UIFree
    /\ IsOpen(t)
    /\ buf[t][cur[t] + 1] # line
    /\ buf' = [buf EXCEPT ![t][cur[t] + 1] = line]
    /\ emitted' = [emitted EXCEPT ![t][cur[t] + 1] = 0]
    /\ UNCHANGED <<terminals, pty, cur, uiVars, queueVars, shutdown_writer,
                   writerVars, sanitizerVars, u_pc, accepted, s_accepted, last_pass>>

\* the cursor goes to a new row below the last one, which shows line
HostNewline(t, line) ==
    /\ UIFree
    /\ IsOpen(t)
    /\ cur[t] + 1 = Len(buf[t])
    /\ buf' = [buf EXCEPT ![t] = Append(@, line)]
    /\ cur' = [cur EXCEPT ![t] = @ + 1]
    /\ emitted' = [emitted EXCEPT ![t] = Append(@, 0)]
    /\ UNCHANGED <<terminals, pty, uiVars, queueVars, shutdown_writer,
                   writerVars, sanitizerVars, u_pc, accepted, s_accepted, last_pass>>

\* the cursor goes to another existing row (a full-screen program, clear)
HostCursorTo(t, row) ==
    /\ UIFree
    /\ IsOpen(t)
    /\ row \in 0..(Len(buf[t]) - 1)
    /\ row # cur[t]
    /\ cur' = [cur EXCEPT ![t] = row]
    /\ UNCHANGED <<terminals, pty, buf, uiVars, queueVars, shutdown_writer,
                   writerVars, sanitizerVars, u_pc, histVars>>

\* ------------------------------------------------------------------------
\* _async_writer
\* ------------------------------------------------------------------------
\* while not self._shutdown_writer
WriterHead ==
    /\ w_pc = "head"
    /\ w_pc' = IF shutdown_writer THEN "close" ELSE "get"
    /\ UNCHANGED <<hostVars, uiVars, queueVars, shutdown_writer, w_item,
                   open_files, files, faulted, sanitizerVars, u_pc, histVars>>

\* a get that hands out the newest item instead
QueueGetNewest(q) == [item |-> q[Len(q)], rest |-> SubSeq(q, 1, Len(q) - 1)]

\* queue.Queue.get: the oldest item and the rest of the queue
QueueGet(q) == [item |-> Head(q), rest |-> Tail(q)]

\* item = self.write_queue.get(timeout=1.0), with an item in the queue
WriterGet ==
    /\ w_pc = "get"
    /\ write_queue # <<>>
    /\ LET got == QueueGet(write_queue)
       IN  /\ write_queue' = got.rest
           /\ IF got.item = None
              THEN w_pc' = "close" /\ w_item' = None
              ELSE IF got.item[1] = <<>> \/ got.item[2] = <<>>
              THEN w_pc' = "head" /\ w_item' = None
              ELSE w_pc' = "write" /\ w_item' = got.item
    /\ UNCHANGED <<hostVars, uiVars, sanitize_queue, shutdown_writer,
                   open_files, files, faulted, sanitizerVars, u_pc, histVars>>

\* the get times out on an empty queue: queue.Empty, continue.  While the
\* flag is clear the thread is back in the same get at once, so only the
\* timeout that leads to the exit is a step.
WriterEmpty ==
    /\ w_pc = "get"
    /\ write_queue = <<>>
    /\ shutdown_writer
    /\ w_pc' = "head"
    /\ UNCHANGED <<hostVars, uiVars, queueVars, shutdown_writer, w_item,
                   open_files, files, faulted, sanitizerVars, u_pc, histVars>>

FileText(path) == IF path \in DOMAIN files THEN files[path] ELSE <<>>

\* a writer that discards every cached handle when a write fails
WriterWriteDiscardsAll(io) ==
    /\ w_pc = "write"
    /\ LET filepath == w_item[1]
           content == w_item[2]
       IN  CASE io = "ok" ->
                  /\ open_files' = open_files \cup {filepath}
                  /\ files' = Put(files, filepath, Append(FileText(filepath), content))
                  /\ UNCHANGED faulted
             [] io = "open_fails" ->
                  /\ filepath \notin open_files
                  /\ faulted' = faulted \cup {filepath}
                  /\ UNCHANGED <<open_files, files>>
             [] io = "write_fails" ->
                  /\ open_files' = {}
                  /\ files' = Put(files, filepath, FileText(filepath))
                  /\ faulted' = faulted \cup {filepath}
    /\ w_pc' = "head"
    /\ w_item' = None
    /\ UNCHANGED <<hostVars, uiVars, queueVars, shutdown_writer,
                   sanitizerVars, u_pc, histVars>>

\* lines 76-93 for the item in hand; io is what the file system does:
\* "ok", "open_fails" (open or makedirs raises) or "write_fails" (write or
\* flush raises on the open handle)
WriterWrite(io) ==
    /\ w_pc = "write"
    /\ LET filepath == w_item[1]
           content == w_item[2]
       IN  CASE io = "ok" ->
                  /\ open_files' = open_files \cup {filepath}
                  /\ files' = Put(files, filepath, Append(FileText(filepath), content))
                  /\ UNCHANGED faulted
             [] io = "open_fails" ->
                  /\ filepath \notin open_files
                  /\ faulted' = faulted \cup {filepath}
                  /\ UNCHANGED <<open_files, files>>
             [] io = "write_fails" ->
                  /\ open_files' = open_files \ {filepath}
                  /\ files' = Put(files, filepath, FileText(filepath))
                  /\ faulted' = faulted \cup {filepath}
    /\ w_pc' = "head"
    /\ w_item' = None
    /\ UNCHANGED <<hostVars, uiVars, queueVars, shutdown_writer,
                   sanitizerVars, u_pc, histVars>>

\* a writer that ends without closing the handles it cached
WriterCloseLeak ==
    /\ w_pc = "close"
    /\ w_pc' = "exited"
    /\ UNCHANGED <<hostVars, uiVars, queueVars, shutdown_writer, w_item,
                   open_files, files, faulted, sanitizerVars, u_pc, histVars>>

\* lines 100-104: every cached handle is closed, the thread ends
WriterClose ==
    /\ w_pc = "close"
    /\ open_files' = {}
    /\ w_pc' = "exited"
    /\ UNCHANGED <<hostVars, uiVars, queueVars, shutdown_writer, w_item,
                   files, faulted, sanitizerVars, u_pc, histVars>>

\* ------------------------------------------------------------------------
\* _async_sanitizer and the sanitizer processes it starts
\* ------------------------------------------------------------------------
\* history: the number of sanitizer invocations that have ended, and the
\* item and the result of the latest one
NoteInvoked(item, result) ==
    [n |-> invoked.n + 1, text |-> item[1], path |-> item[2], result |-> result,
     prev |-> invoked.result]
NoInvocation ==
    [n |-> 0, text |-> <<>>, path |-> <<>>, result |-> "none", prev |-> "none"]

SanitizerHead ==
    /\ s_pc = "head"
    /\ s_pc' = IF shutdown_writer THEN "exited" ELSE "get"
    /\ UNCHANGED <<hostVars, uiVars, queueVars, shutdown_writer, writerVars,
                   s_item, procs, sfiles, invoked, u_pc, histVars>>

SanitizerGet ==
    /\ s_pc = "get"
    /\ sanitize_queue # <<>>
    /\ LET got == QueueGet(sanitize_queue)
       IN  /\ sanitize_queue' = got.rest
           /\ IF got.item = None
              THEN s_pc' = "exited" /\ s_item' = None
              ELSE IF got.item[1] = <<>> \/ got.item[2] = <<>>
              THEN s_pc' = "head" /\ s_item' = None
              ELSE s_pc' = "popen" /\ s_item' = got.item
    /\ UNCHANGED <<hostVars, uiVars, write_queue, shutdown_writer, writerVars,
                   procs, sfiles, invoked, u_pc, histVars>>

SanitizerEmpty ==
    /\ s_pc = "get"
    /\ sanitize_queue = <<>>
    /\ shutdown_writer
    /\ s_pc' = "head"
    /\ UNCHANGED <<hostVars, uiVars, queueVars, shutdown_writer, writerVars,
                   s_item, procs, sfiles, invoked, u_pc, histVars>>

\* subprocess.Popen of lines 126-134; started = FALSE is Popen raising
SanitizerPopen(started) ==
    /\ s_pc = "popen"
    /\ IF started
       THEN /\ s_pc' = "communicate"
            /\ UNCHANGED <<s_item, invoked>>
       ELSE /\ s_pc' = "head"
            /\ s_item' = None
            /\ invoked' = NoteInvoked(s_item, "popen_error")
    /\ UNCHANGED <<hostVars, uiVars, queueVars, shutdown_writer, writerVars,
                   procs, sfiles, u_pc, histVars>>

SanText(path) == IF path \in DOMAIN sfiles THEN sfiles[path] ELSE <<>>

\* what a sanitizer process leaves in its output file when it ends: the
\* redacted text of its input on exit status 0, nothing otherwise
ProcessOutput(text, path, status) ==
    IF status = "zero"
    THEN Put(sfiles, path, Append(SanText(path), text))
    ELSE sfiles

\* a consumer that puts the chunk back on its queue when the process exits
\* non-zero
SanitizerCommunicateRetry(result) ==
    /\ s_pc = "communicate"
    /\ IF result = "timeout"
       THEN /\ Len(procs) < MaxOrphans
            /\ procs' = Append(procs, s_item)
            /\ UNCHANGED <<sfiles, sanitize_queue>>
       ELSE /\ sfiles' = ProcessOutput(s_item[1], s_item[2], result)
            /\ sanitize_queue' = IF result = "nonzero"
                                 THEN Append(sanitize_queue, s_item)
                                 ELSE sanitize_queue
            /\ UNCHANGED procs
    /\ invoked' = NoteInvoked(s_item, result)
    /\ s_pc' = "head"
    /\ s_item' = None
    /\ UNCHANGED <<hostVars, uiVars, write_queue, shutdown_writer, writerVars,
                   u_pc, histVars>>

\* process.communicate(input=content, timeout=30) of line 136; result is
\* "zero" or "nonzero" (the exit status of the process) or "timeout"
\* (TimeoutExpired: communicate does not end the process, it runs on)
SanitizerCommunicate(result) ==
    /\ s_pc = "communicate"
    /\ IF result = "timeout"
       THEN /\ Len(procs) < MaxOrphans
            /\ procs' = Append(procs, s_item)
            /\ UNCHANGED sfiles
       ELSE /\ sfiles' = ProcessOutput(s_item[1], s_item[2], result)
            /\ UNCHANGED procs
    /\ invoked' = NoteInvoked(s_item, result)
    /\ s_pc' = "head"
    /\ s_item' = None
    /\ UNCHANGED <<hostVars, uiVars, queueVars, shutdown_writer, writerVars,
                   u_pc, histVars>>

\* a sanitizer process whose communicate timed out ends on its own
ProcessEnds(i, status) ==
    /\ i \in 1..Len(procs)
    /\ sfiles' = ProcessOutput(procs[i][1], procs[i][2], status)
    /\ procs' = SubSeq(procs, 1, i - 1) \o SubSeq(procs, i + 1, Len(procs))
    /\ UNCHANGED <<hostVars, uiVars, queueVars, shutdown_writer, writerVars,
                   s_pc, s_item, invoked, u_pc, histVars>>

\* ------------------------------------------------------------------------
\* unload
\* ------------------------------------------------------------------------
\* lines 537-540: every session is stopped (_stop_logging), the flag is set
UnloadStop ==
    /\ u_pc = "idle"
    /\ loggers' = <<>>
    /\ terminal_ids' = Restrict(terminal_ids, DOMAIN terminal_ids \ DOMAIN loggers)
    /\ shutdown_writer' = TRUE
    /\ u_pc' = "put_write"
    /\ UNCHANGED <<hostVars, terminal_counter, pty_map, queueVars, writerVars,
                   sanitizerVars, histVars>>

\* self.write_queue.put(None): no timeout, it waits for a free slot
UnloadPutWrite ==
    /\ u_pc = "put_write"
    /\ ~Full(write_queue)
    /\ write_queue' = Append(write_queue, None)
    /\ u_pc' = "put_sanitize"
    /\ UNCHANGED <<hostVars, uiVars, sanitize_queue, shutdown_writer,
                   writerVars, sanitizerVars, histVars>>

UnloadPutSanitize ==
    /\ u_pc = "put_sanitize"
    /\ ~Full(sanitize_queue)
    /\ sanitize_queue' = Append(sanitize_queue, None)
    /\ u_pc' = "join_writer"
    /\ UNCHANGED <<hostVars, uiVars, write_queue, shutdown_writer,
                   writerVars, sanitizerVars, histVars>>

\* writer_thread.join(timeout=2.0) returns when the thread has ended, or
\* after two seconds
UnloadJoinWriter ==
    /\ u_pc = "join_writer"
    /\ u_pc' = "join_sanitizer"
    /\ UNCHANGED <<hostVars, uiVars, queueVars, shutdown_writer,
                   writerVars, sanitizerVars, histVars>>

UnloadJoinSanitizer ==
    /\ u_pc = "join_sanitizer"
    /\ u_pc' = "returned"
    /\ UNCHANGED <<hostVars, uiVars, queueVars, shutdown_writer,
                   writerVars, sanitizerVars, histVars>>

\* ------------------------------------------------------------------------
\* Initial state: the plugin has been constructed, the threads are started
\* ------------------------------------------------------------------------
Init ==
    /\ terminals = <<>>
    /\ pty = <<>>
    /\ buf = <<>>
    /\ cur = <<>>
    /\ loggers = <<>>
    /\ terminal_ids = <<>>
    /\ terminal_counter = 0
    /\ pty_map = <<>>
    /\ write_queue = <<>>
    /\ sanitize_queue = <<>>
    /\ shutdown_writer = FALSE
    /\ w_pc = "head"
    /\ w_item = None
    /\ open_files = {}
    /\ files = <<>>
    /\ faulted = {}
    /\ s_pc = "head"
    /\ s_item = None
    /\ procs = <<>>
    /\ sfiles = <<>>
    /\ u_pc = "idle"
    /\ emitted = <<>>
    /\ accepted = <<>>
    /\ s_accepted = <<>>
    /\ invoked = NoInvocation
    /\ last_pass = NoPass

\* ------------------------------------------------------------------------
\* What the host shows and which PTYs it uses
\* ------------------------------------------------------------------------
LPrompt == PromptMarker \o <<" ">>
LPromptLs == PromptMarker \o <<" ", "l", "s">>
LPromptCtx == PromptMarker \o <<" ">> \o ContextWord
LOutA == <<"a", ".", "t", "x", "t">>
LOutB == <<"b", ".", "t", "x", "t">>
LBlank == <<>>

PtsA == <<PtsDir, 0>>
PtsB == <<PtsDir, 1>>
TtyA == <<"/dev/tty", 0>>
TtyB == <<"/dev/tty", 1>>

AllAnswer == [cursor |-> TRUE, content |-> TRUE]
AllAnswered == [cursor |-> TRUE, line |-> TRUE, region |-> TRUE]

SurfaceCount == Cardinality(DOMAIN buf)

\* ------------------------------------------------------------------------
\* Specification of the two pipelines: one surface whose shell prints
\* output and prompts, every outcome of file and process I/O, unload
\* ------------------------------------------------------------------------
PipeLines == {LPrompt}

WorkerNext ==
    \/ WriterHead
    \/ WriterGet
    \/ WriterEmpty
    \/ \E io \in {"ok", "open_fails", "write_fails"} : WriterWrite(io)
    \/ WriterClose
    \/ SanitizerHead
    \/ SanitizerGet
    \/ SanitizerEmpty
    \/ \E started \in BOOLEAN : SanitizerPopen(started)
    \/ \E result \in {"zero", "nonzero", "timeout"} : SanitizerCommunicate(result)
    \/ \E i \in 1..MaxOrphans, status \in {"zero", "nonzero"} : ProcessEnds(i, status)

UnloadNext ==
    \/ UnloadStop
    \/ UnloadPutWrite
    \/ UnloadPutSanitize
    \/ UnloadJoinWriter
    \/ UnloadJoinSanitizer

Next ==
    \/ (SurfaceCount = 0 /\ HostOpen(PtsA, 5, <<LPromptLs>>))
    \/ \E t \in DOMAIN buf, line \in PipeLines :
          Len(buf[t]) < PipeRows /\ HostNewline(t, line)
    \/ check_for_new_terminals(AllAnswer)
    \/ \E t \in DOMAIN buf : on_contents_changed(t, AllAnswered)
    \/ WorkerNext
    \/ UnloadNext

Spec == Init /\ [][Next]_vars

\* ------------------------------------------------------------------------
\* Specification of the filter: one surface whose text and cursor change
\* freely, host queries that may fail.  The workers have no I/O failure and
\* finish the queued work before the next event of the UI thread: the
\* handlers read nothing of the workers' state but the fill of the queues
\* and the size of the raw log.
\* ------------------------------------------------------------------------
FilterLines == {LPrompt, LPromptLs, LOutA}

DrainNext ==
    \/ WriterHead
    \/ WriterGet
    \/ WriterWrite("ok")
    \/ SanitizerHead
    \/ SanitizerGet
    \/ SanitizerPopen(TRUE)
    \/ SanitizerCommunicate("zero")

Drained ==
    /\ w_pc \in {"get", "exited"}
    /\ s_pc \in {"get", "exited"}
    /\ w_pc = "get" => write_queue = <<>>
    /\ s_pc = "get" => sanitize_queue = <<>>

FilterNext ==
    \/ \E line \in FilterLines :
          Drained /\ SurfaceCount = 0 /\ HostOpen(PtsA, 5, <<line>>)
    \/ \E t \in DOMAIN buf, line \in FilterLines : Drained /\ HostType(t, line)
    \/ \E t \in DOMAIN buf, line \in FilterLines :
          Drained /\ Len(buf[t]) < MaxRows /\ HostNewline(t, line)
    \/ \E t \in DOMAIN buf, row \in 0..(MaxRows - 1) :
          Drained /\ HostCursorTo(t, row)
    \/ \E q \in QueryOutcomes : Drained /\ check_for_new_terminals(q)
    \/ \E t \in DOMAIN buf, q \in ChangeOutcomes :
          Drained /\ on_contents_changed(t, q)
    \/ DrainNext

FilterSpec == Init /\ [][FilterNext]_vars

\* ------------------------------------------------------------------------
\* Specification of the identities: surfaces come and go on PTYs of every
\* kind, sessions are started by the timer and stopped by unload; the
\* workers as in FilterSpec, and they end on shutdown
\* ------------------------------------------------------------------------
PtyNames == {PtsA, PtsB, TtyA, TtyB, NoName, Raises}
PtyFds == {5, 6}

IdentityNext ==
    \/ \E name \in PtyNames, fd \in PtyFds :
          Drained /\ SurfaceCount < MaxSurfaces /\ HostOpen(name, fd, <<LPrompt>>)
    \/ \E t \in DOMAIN buf : Drained /\ HostClose(t)
    \/ Drained /\ check_for_new_terminals(AllAnswer)
    \/ DrainNext
    \/ WriterEmpty
    \/ WriterClose
    \/ SanitizerEmpty
    \/ Drained /\ UnloadStop
    \/ UnloadPutWrite
    \/ UnloadPutSanitize
    \/ UnloadJoinWriter
    \/ UnloadJoinSanitizer

IdentitySpec == Init /\ [][IdentityNext]_vars

\* ------------------------------------------------------------------------
\* Specification of the filter pass: a surface that shows any text of up to
\* MaxRows rows when the timer finds it, and whose shell then prints more
\* rows; every pass of the snapshot and of the notifications is recorded
\* ------------------------------------------------------------------------
LContextOut == ContextWord \o <<" ", "o", "k">>
PassLines == {LPrompt, LPromptLs, LPromptCtx, LOutA, LContextOut}

RECURSIVE Texts(_, _)
Texts(lines, n) ==
    IF n = 0 THEN {<<>>}
    ELSE {Append(rows, line) : rows \in Texts(lines, n - 1), line \in lines}

PassNext ==
    \/ \E n \in 1..MaxRows : \E rows \in Texts(PassLines, n) :
          Drained /\ SurfaceCount = 0 /\ HostOpen(PtsA, 5, rows)
    \/ \E t \in DOMAIN buf, line \in PassLines :
          Drained /\ Len(buf[t]) < MaxRows /\ HostNewline(t, line)
    \/ Drained /\ check_for_new_terminals(AllAnswer)
    \/ \E t \in DOMAIN buf : Drained /\ on_contents_changed(t, AllAnswered)
    \/ DrainNext

PassSpec == Init /\ [][PassNext]_vars

\* ------------------------------------------------------------------------
\* Specification of the end-to-end scenario: the session starts on a surface
\* that shows only a prompt, the user types ls, the shell prints a.txt and
\* b.txt and a new prompt; a notification may come after every change
\* ------------------------------------------------------------------------
LPromptL == PromptMarker \o <<" ", "l">>

ScenarioStages ==
    << <<LPrompt>>,
       <<LPromptL>>,
       <<LPromptLs>>,
       <<LPromptLs, LBlank>>,
       <<LPromptLs, LOutA>>,
       <<LPromptLs, LOutA, LBlank>>,
       <<LPromptLs, LOutA, LOutB>>,
       <<LPromptLs, LOutA, LOutB, LBlank>>,
       <<LPromptLs, LOutA, LOutB, LPrompt>> >>

ScenarioHost(t) ==
    /\ t \in DOMAIN loggers
    /\ \E k \in 1..(Len(ScenarioStages) - 1) :
          /\ buf[t] = ScenarioStages[k]
          /\ LET next == ScenarioStages[k + 1]
             IN  IF Len(next) > Len(buf[t])
                 THEN HostNewline(t, next[Len(next)])
                 ELSE HostType(t, next[Len(next)])

ScenarioNext ==
    \/ (SurfaceCount = 0 /\ HostOpen(PtsA, 5, ScenarioStages[1]))
    \/ check_for_new_terminals(AllAnswer)
    \/ \E t \in DOMAIN buf : ScenarioHost(t)
    \/ \E t \in DOMAIN buf : on_contents_changed(t, AllAnswered)
    \/ DrainNext

ScenarioSpec == Init /\ [][ScenarioNext]_vars

\* ------------------------------------------------------------------------
\* Specification of the log position: one surface whose shell prints output
\* and prompts and whose cursor goes to any row, host queries that may
\* fail; the workers as in FilterSpec
\* ------------------------------------------------------------------------
RowLines == {LPrompt, LOutA}

RowNext ==
    \/ \E line \in RowLines :
          Drained /\ SurfaceCount = 0 /\ HostOpen(PtsA, 5, <<line>>)
    \/ \E t \in DOMAIN buf, line \in RowLines :
          Drained /\ Len(buf[t]) < MaxRows /\ HostNewline(t, line)
    \/ \E t \in DOMAIN buf, row \in 0..(MaxRows - 1) :
          Drained /\ HostCursorTo(t, row)
    \/ \E q \in QueryOutcomes : Drained /\ check_for_new_terminals(q)
    \/ \E t \in DOMAIN buf, q \in ChangeOutcomes :
          Drained /\ on_contents_changed(t, q)
    \/ DrainNext

RowSpec == Init /\ [][RowNext]_vars

\* ------------------------------------------------------------------------
\* Specification of the sessions: surfaces come and go, the timer fires at
\* any time with host queries that may fail, the plugin is unloaded; the
\* workers as in IdentitySpec
\* ------------------------------------------------------------------------
PollNames == {PtsA, Raises}

PollNext ==
    \/ \E name \in PollNames, fd \in PtyFds :
          Drained /\ SurfaceCount < MaxSurfaces /\ HostOpen(name, fd, <<LPromptLs>>)
    \/ \E t \in DOMAIN buf : Drained /\ HostClose(t)
    \/ \E q \in QueryOutcomes : Drained /\ check_for_new_terminals(q)
    \/ DrainNext
    \/ WriterEmpty
    \/ WriterClose
    \/ SanitizerEmpty
    \/ Drained /\ UnloadStop
    \/ UnloadPutWrite
    \/ UnloadPutSanitize
    \/ UnloadJoinWriter
    \/ UnloadJoinSanitizer

PollSpec == Init /\ [][PollNext]_vars

\* ------------------------------------------------------------------------
\* Specification of the producers and the queues: one surface whose shell
\* prints output and prompts, the handlers of the UI thread and the two
\* workers run in any order, so that the queues fill; no I/O failure
\* ------------------------------------------------------------------------
QueueLines == {LPrompt, LOutA}

QueueNext ==
    \/ (SurfaceCount = 0 /\ HostOpen(PtsA, 5, <<LPromptLs>>))
    \/ \E t \in DOMAIN buf, line \in QueueLines :
          Len(buf[t]) < PipeRows /\ HostNewline(t, line)
    \/ \E q \in QueryOutcomes : check_for_new_terminals(q)
    \/ \E t \in DOMAIN buf, q \in ChangeOutcomes : on_contents_changed(t, q)
    \/ DrainNext

QueueSpec == Init /\ [][QueueNext]_vars

\* ------------------------------------------------------------------------
\* Specification of the line classes: as PassSpec, for a shell whose prompt
\* ends in "$ " or "# " and a user who types a single character
\* ------------------------------------------------------------------------
LDollar == <<"u", "s", "r", "$", " ">>
LHash == <<"#", " ">>
LOneChar == <<"l">>
PromptLines == {LDollar, LHash, LPrompt, LOneChar, LOutA}

PromptNext ==
    \/ \E n \in 1..MaxRows : \E rows \in Texts(PromptLines, n) :
          Drained /\ SurfaceCount = 0 /\ HostOpen(PtsA, 5, rows)
    \/ \E t \in DOMAIN buf, line \in PromptLines :
          Drained /\ Len(buf[t]) < MaxRows /\ HostNewline(t, line)
    \/ Drained /\ check_for_new_terminals(AllAnswer)
    \/ \E t \in DOMAIN buf : Drained /\ on_contents_changed(t, AllAnswered)
    \/ DrainNext

PromptSpec == Init /\ [][PromptNext]_vars

\* ------------------------------------------------------------------------
\* Specification of the raw files: surfaces on two PTYs, so that the writer
\* caches a handle for each of two paths, every outcome of file I/O; the
\* poll, which enqueues a banner and a snapshot for each new surface, and
\* the writer run in any order; the sanitizer has no failure
\* and finishes the queued work before their next step
\* ------------------------------------------------------------------------
RawPtys == {<<PtsA, 5>>, <<PtsB, 6>>}

\* the sanitizer is waiting on its empty queue
SanitizerIdle == s_pc = "get" /\ sanitize_queue = <<>>

RawNext ==
    \/ \E p \in RawPtys :
          /\ SanitizerIdle
          /\ SurfaceCount < MaxSurfaces
          /\ HostOpen(p[1], p[2], <<LPromptLs>>)
    \/ SanitizerIdle /\ check_for_new_terminals(AllAnswer)
    \/ WriterHead
    \/ SanitizerIdle /\ WriterGet
    \/ \E io \in {"ok", "open_fails", "write_fails"} :
          SanitizerIdle /\ WriterWrite(io)
    \/ SanitizerHead
    \/ SanitizerGet
    \/ SanitizerPopen(TRUE)
    \/ SanitizerCommunicate("zero")

RawSpec == Init /\ [][RawNext]_vars

\* ------------------------------------------------------------------------
\* Claims
\* ------------------------------------------------------------------------
\* C1: no duplication of output.  For one session, over the snapshot of
\* _start_logging and every content-change notification, a buffer row whose
\* text does not change is included in at most one chunk accepted by the
\* raw queue.
C1_NoRowEmittedTwice ==
    \A t \in DOMAIN emitted : \A r \in DOMAIN emitted[t] : emitted[t][r] <= 1

\* the threads run whenever they can, a bounded join returns, and a put
\* proceeds once the queue has a free slot
FairSpec ==
    /\ Spec
    /\ WF_vars(WorkerNext)
    /\ WF_vars(UnloadNext)

\* C2: shutdown always completes.  From any reachable state a call to
\* unload eventually returns; the workers cannot prevent it.
C2_UnloadReturns == (u_pc = "put_write") ~> (u_pc = "returned")

\* the texts of the items of queue q (path at position k of an item) that
\* are for path
RECURSIVE QueuedFor(_, _, _)
QueuedFor(q, path, k) ==
    IF q = <<>> THEN <<>>
    ELSE IF Head(q) # None /\ Head(q)[k] = path
         THEN <<Head(q)[3 - k]>> \o QueuedFor(Tail(q), path, k)
         ELSE QueuedFor(Tail(q), path, k)

InHandFor(path) ==
    IF w_pc = "write" /\ w_item[1] = path THEN <<w_item[2]>> ELSE <<>>

\* C3: raw pipeline ordering.  For the chunks accepted into write_queue for
\* one path, with no I/O error on that path, the writer appends them to the
\* file in enqueue order, each exactly once: the file, the item in the
\* writer's hand and the items still queued are, in this order, exactly the
\* accepted chunks.
C3_RawOrder ==
    \A path \in DOMAIN accepted :
        path \notin faulted =>
            FileText(path) \o InHandFor(path) \o QueuedFor(write_queue, path, 1)
                = accepted[path]

\* two different chunks have been written to a file that had no I/O error
C3_Witness ==
    \E path \in DOMAIN files :
        /\ path \notin faulted
        /\ Len(files[path]) >= 2
        /\ files[path][1] # files[path][2]

\* an item that was accepted before unload was called is still in queue q:
\* it is ahead of the sentinel, or the sentinel has not been put yet
LeftBehind(q, sentinel_put) ==
    IF \E i \in 1..Len(q) : q[i] = None
    THEN q[1] # None
    ELSE ~sentinel_put /\ q # <<>>

\* C4: shutdown drains.  Every item accepted into write_queue (sanitize_queue)
\* before unload is called is consumed by its worker before the worker
\* exits.
C4_ShutdownDrains ==
    /\ w_pc = "exited" => ~LeftBehind(write_queue, u_pc \notin {"idle", "put_write"})
    /\ s_pc = "exited" =>
          ~LeftBehind(sanitize_queue, u_pc \notin {"idle", "put_write", "put_sanitize"})

\* C5 as stated: after unload has returned no worker writes to a log file
\* any more and every file handle cached by the writer has been closed.
C5_NoWriteAfterUnload ==
    [][u_pc = "returned" => (open_files = {} /\ files' = files)]_vars

\* C5, amended: once the writer thread has terminated it has closed every
\* file handle it cached and nothing is written to a raw log any more; a
\* writer that the bounded join of unload abandoned is not covered.
C5_NoWriteAfterWriterExit ==
    [][w_pc = "exited" => (open_files = {} /\ files' = files /\ w_pc' = "exited")]_vars

\* unload has returned after the writer, which had written to a file and
\* cached its handle, terminated
C5_Witness ==
    /\ u_pc = "returned"
    /\ w_pc = "exited"
    /\ \E path \in DOMAIN files : files[path] # <<>>

SanitizeAccepted ==
    LET paths == DOMAIN s_accepted
        RECURSIVE Sum(_)
        Sum(S) == IF S = {} THEN 0
                  ELSE LET x == CHOOSE y \in S : TRUE
                       IN  Len(s_accepted[x]) + Sum(S \ {x})
    IN  Sum(paths)

SanitizeQueued ==
    Len(SelectSeq(sanitize_queue, LAMBDA item : item # None))

\* C6: sanitizer failure isolation.  When the sanitizer process exits
\* non-zero for a chunk, nothing is written to the sanitized file, the raw
\* file and the raw queue are untouched, the chunk is not put back or kept
\* (every accepted item is handed to a process at most once), and the
\* consumer goes back to the head of its loop for the next chunk.
C6_FailureIsolation ==
    /\ [](invoked.n + (IF s_pc \in {"popen", "communicate"} THEN 1 ELSE 0)
             + SanitizeQueued = SanitizeAccepted)
    /\ [][(invoked'.n = invoked.n + 1 /\ invoked'.result = "nonzero") =>
             /\ sfiles' = sfiles
             /\ files' = files
             /\ write_queue' = write_queue
             /\ sanitize_queue' = sanitize_queue
             /\ s_item' = None
             /\ s_pc' = "head"]_vars

\* the process for one chunk exited non-zero, the process for the next chunk
\* succeeded and its output is the only text of the sanitized file
C6_Witness ==
    /\ invoked.prev = "nonzero"
    /\ invoked.result = "zero"
    /\ invoked.n = 2
    /\ sfiles[invoked.path] = <<invoked.text>>
    /\ s_accepted[invoked.path][1] # invoked.text

\* the sanitizer processes that are running for path
ActiveFor(path) ==
    Len(SelectSeq(procs, LAMBDA item : item[2] = path))
      + (IF s_pc = "communicate" /\ s_item[2] = path THEN 1 ELSE 0)

\* C7: sanitized per-file order.  At most one sanitizer invocation is active
\* for an output path at any time, so the output for a chunk is never
\* written after the output for the next chunk has started; an invocation
\* that hit the 30-second timeout writes nothing afterwards.
C7_OneActiveInvocation ==
    \A path \in DOMAIN s_accepted : ActiveFor(path) <= 1

PathBacked(t) == pty[t].name \notin {NoName, Raises}

\* C8: identity stability.  Within one run two surfaces backed by the same
\* PTY path always resolve to the same identifier (the identifier of a path
\* is the one the map holds, and the map never loses or changes an entry),
\* and two different PTY paths never have the same identifier.
C8_IdentityStable ==
    /\ [](\A t \in DOMAIN terminal_ids :
             PathBacked(t) =>
                 /\ pty[t].name \in DOMAIN pty_map
                 /\ terminal_ids[t] = pty_map[pty[t].name])
    /\ [][\A name \in DOMAIN pty_map :
             name \in DOMAIN pty_map' /\ pty_map'[name] = pty_map[name]]_vars
    /\ [](\A p, q \in DOMAIN pty_map : p # q => pty_map[p] # pty_map[q])

\* the first prompt line after line i of a pass, or 0
NextPrompt(lines, i) ==
    LET later == {j \in (i + 1)..Len(lines) : looks_like_prompt(Strip(lines[j]))}
    IN  IF later = {} THEN 0 ELSE SetMin(later)

\* the law of a pass for the context command line i: the lines after it are
\* dropped up to the next prompt line j, and included(j) tells whether the
\* prompt line itself is kept
ExclusionLaw(pass, i, included(_)) ==
    LET j == NextPrompt(pass.input, i)
        last == IF j = 0 THEN Len(pass.input) ELSE j - 1
    IN  /\ \A k \in (i + 1)..last : k \notin pass.kept
        /\ j # 0 => (j \in pass.kept <=> included(pass.input[j]))

ContextLines(pass) ==
    {i \in 1..Len(pass.input) : is_context_command(Strip(pass.input[i]))}

PromptKeptAsStated(line) == ~is_empty_prompt(Strip(line))

PromptKeptAsAmended(line) ==
    ~is_empty_prompt(Strip(line)) /\ ~is_context_command(Strip(line))

\* C9 as stated: in one filter pass, once a line is the start of the
\* excluded context command, every following line is dropped until the
\* next prompt line, and that prompt line is included unless it is an empty
\* prompt.
C9_ExclusionAsStated ==
    \A i \in ContextLines(last_pass) : ExclusionLaw(last_pass, i, PromptKeptAsStated)

\* C9, amended: ... and that prompt line is included unless it is an empty
\* prompt or is itself the start of a context command; in the latter case
\* it is dropped and the skipping goes on.
C9_ExclusionLaw ==
    \A i \in ContextLines(last_pass) : ExclusionLaw(last_pass, i, PromptKeptAsAmended)

\* a pass in which a context command line is followed by a dropped line of
\* output and then by a prompt line that is kept
C9_Witness ==
    \E i \in ContextLines(last_pass) :
        /\ NextPrompt(last_pass.input, i) = i + 2
        /\ (i + 1) \notin last_pass.kept
        /\ ~is_partial_command(Strip(last_pass.input[i + 1]))
        /\ (i + 2) \in last_pass.kept

ScenarioPath == OriginalLog(FormatPtsId(5, 0))
ScenarioSanitizedPath == SanitizedLog(FormatPtsId(5, 0))
ScenarioDone ==
    /\ 1 \in DOMAIN loggers
    /\ loggers[1].last_row = 3

\* C10 as stated: over the notifications of the scenario exactly one chunk
\* is enqueued to the raw queue and the same chunk to the sanitize queue; it
\* holds the ls line, a.txt, b.txt and the new prompt line, in that order.
C10_ChunkWithPrompt ==
    ScenarioDone =>
        LET chunk == JoinLines(<<LPromptLs, LOutA, LOutB, RStrip(LPrompt)>>)
        IN  /\ accepted[ScenarioPath] = <<Banner, chunk>>
            /\ s_accepted[ScenarioSanitizedPath] = <<Banner, chunk>>

\* C10, amended: ... exactly one chunk is enqueued to the raw queue and the
\* same chunk to the sanitize queue; it holds the ls line, a.txt and b.txt,
\* in that order, with no blank lines.  The new prompt line is an empty
\* prompt and is not part of the chunk.
C10_Scenario ==
    /\ \A path \in DOMAIN accepted : Len(accepted[path]) <= 2
    /\ \A path \in DOMAIN s_accepted : Len(s_accepted[path]) <= 2
    /\ ScenarioDone =>
          LET chunk == JoinLines(<<LPromptLs, LOutA, LOutB>>)
          IN  /\ accepted[ScenarioPath] = <<Banner, chunk>>
              /\ s_accepted[ScenarioSanitizedPath] = <<Banner, chunk>>

\* the notification for the new prompt has been handled
C10_Witness ==
    /\ ScenarioDone
    /\ buf[1] = ScenarioStages[Len(ScenarioStages)]
    /\ Len(accepted[ScenarioPath]) = 2

\* C11: monotonic log position.  For one session the stored last_row never
\* decreases, over any sequence of _on_contents_changed invocations and
\* whatever cursor row the host reports.
C11_LastRowMonotonic ==
    [][\A t \in DOMAIN loggers \cap DOMAIN loggers' :
          loggers'[t].last_row >= loggers[t].last_row]_vars

\* a notification has advanced last_row beyond the first row and the host
\* now reports a cursor row above it
C11_Witness ==
    \E t \in DOMAIN loggers :
        /\ last_pass.surface = t
        /\ last_pass.start_row > 0
        /\ loggers[t].last_row > last_pass.start_row
        /\ cur[t] < loggers[t].last_row
        /\ looks_like_prompt(Strip(buf[t][cur[t] + 1]))

AllSurfacesLogged == \A i \in 1..Len(terminals) : terminals[i] \in DOMAIN loggers

\* C12: idempotent session creation.  A run of _check_for_new_terminals
\* leaves every surface of the host with a session record, and a run that
\* finds every surface with a record creates no session, changes no record
\* and enqueues nothing; the records are keyed by surface, one per surface,
\* each with the identifier resolved for its surface.
C12_PollIdempotent ==
    [][(\E q \in QueryOutcomes : check_for_new_terminals(q)) =>
          /\ AllSurfacesLogged'
          /\ DOMAIN loggers' \subseteq DOMAIN buf
          /\ \A t \in DOMAIN loggers' :
                loggers'[t].terminal_id = terminal_ids'[t]
          /\ AllSurfacesLogged =>
                UNCHANGED <<uiVars, queueVars, accepted, s_accepted>>]_vars

\* two surfaces have a session each, one of them on a PTY whose ptsname
\* raises, and the timer can fire again
C12_Witness ==
    /\ Len(terminals) = 2
    /\ AllSurfacesLogged
    /\ \E t \in DOMAIN loggers : pty[t].name = Raises
    /\ \E t \in DOMAIN loggers : pty[t].name = PtsA
    /\ UIFree
    /\ Drained

\* a step of one of the two producers, a run of the poll or of the
\* notification handler
ProducerStep ==
    \/ \E q \in QueryOutcomes : check_for_new_terminals(q)
    \/ \E t \in DOMAIN buf, q \in ChangeOutcomes : on_contents_changed(t, q)

\* C13: backpressure.  No queue ever holds more items than its capacity;
\* a producer that finds a queue at capacity returns with that queue's
\* contents and order unchanged (the new item is dropped, no error), and a
\* producer only ever appends to a queue.
C13_Backpressure ==
    [][/\ Len(write_queue') <= QueueCap
       /\ Len(sanitize_queue') <= QueueCap
       /\ ProducerStep =>
             /\ Full(write_queue) => UNCHANGED <<write_queue, accepted>>
             /\ Full(sanitize_queue) => UNCHANGED <<sanitize_queue, s_accepted>>
             /\ SubSeq(write_queue', 1, Len(write_queue)) = write_queue
             /\ SubSeq(sanitize_queue', 1, Len(sanitize_queue)) = sanitize_queue]_vars

\* the sanitize queue is at capacity with the banner and the snapshot, and
\* the chunk of a notification has been accepted by the raw queue only: its
\* put on the sanitize queue was dropped
C13_Witness ==
    \E t \in DOMAIN loggers :
        LET path == loggers[t].filepath
            spath == loggers[t].sanitized_filepath
        IN  /\ path \in DOMAIN accepted
            /\ spath \in DOMAIN s_accepted
            /\ Len(accepted[path]) = 3
            /\ Len(s_accepted[spath]) = 2
            /\ Full(sanitize_queue)
            /\ sanitize_queue = << <<accepted[path][1], spath>>,
                                   <<accepted[path][2], spath>> >>

\* a prompt line as the host displays it: it ends in "$ " or "# ", or it
\* carries one of the box-drawing markers
DisplayedPrompt(line) ==
    \/ EndsWith(line, DollarSpace)
    \/ EndsWith(line, HashSpace)
    \/ StartsWith(Strip(line), PromptMarker)
    \/ StartsWith(Strip(line), PromptTop)

\* a displayed prompt line with nothing after the prompt
BarePrompt(line) ==
    \/ EndsWith(line, DollarSpace)
    \/ EndsWith(line, HashSpace)
    \/ Strip(line) = PromptMarker

\* C14: empty prompt suppression.  In a filter pass, a prompt line that is
\* immediately followed by another prompt line, with nothing typed after
\* its prompt, is not included in the chunk.
C14_EmptyPromptSuppressed ==
    \A i \in 1..(Len(last_pass.input) - 1) :
        (BarePrompt(last_pass.input[i]) /\ DisplayedPrompt(last_pass.input[i + 1]))
            => i \notin last_pass.kept

\* C15: partial-input suppression.  In a filter pass every line that is not
\* a prompt, has one or two visible characters and is not all digits is
\* classified as partial and dropped, and no displayed prompt line is
\* classified as partial, as the handler passes it or as the host shows it.
C15_PartialSuppression ==
    \A i \in 1..Len(last_pass.input) :
        LET line == last_pass.input[i]
            stripped == Strip(line)
        IN  /\ (~DisplayedPrompt(line) /\ Len(stripped) \in 1..2 /\ ~IsDigit(stripped))
                  => (is_partial_command(stripped) /\ i \notin last_pass.kept)
            /\ DisplayedPrompt(line)
                  => (~is_partial_command(stripped) /\ ~is_partial_command(line))

\* the lines of a pass that come before its first prompt line
BeforeFirstPrompt(lines) ==
    {i \in 1..Len(lines) :
        \A j \in 1..i : ~looks_like_prompt(Strip(lines[j]))}

\* C16: the skipping state is carried across notifications.  When a filter
\* pass of a session (the snapshot or a notification) ends while skipping
\* the output of an excluded command, the next pass of the session drops
\* every line that comes before its first prompt line.
C16_SkipCarried ==
    [][(/\ last_pass.skip
        /\ last_pass' # last_pass
        /\ last_pass'.surface = last_pass.surface)
          => BeforeFirstPrompt(last_pass'.input) \cap last_pass'.kept = {}]_vars

\* C17: session lifecycle end.  After a run of the poll timer no surface
\* that the host has closed has a session record, and once unload has been
\* called there is no session record and no item is accepted by a queue
\* any more, whatever the timer does.
C17_SessionEnds ==
    [][/\ (\E q \in QueryOutcomes : check_for_new_terminals(q))
             => \A t \in DOMAIN loggers' : IsOpen(t)
       /\ u_pc # "idle"
             => (loggers' = <<>> /\ UNCHANGED <<accepted, s_accepted>>)]_vars

\* C18: prompt detection drives completion.  In every state in which the
\* cursor row of a session is beyond last_row and shows a displayed prompt
\* line, a run of _on_contents_changed whose host queries all answer
\* advances last_row to the cursor row.
C18_PromptAdvances ==
    \A t \in DOMAIN loggers :
        (/\ IsOpen(t)
         /\ cur[t] > loggers[t].last_row
         /\ DisplayedPrompt(buf[t][cur[t] + 1]))
           => contents_changed(UIState, t, AllAnswered).loggers[t].last_row = cur[t]

\* C19: a host query failure is a no-op.  A run of _on_contents_changed in
\* which the cursor query, the read of the cursor line or the read of the
\* region fails or returns nothing leaves the session records, with their
\* last_row, and both queues unchanged.
C19_QueryFailureNoOp ==
    [][\A t \in DOMAIN buf, q \in ChangeOutcomes :
          (on_contents_changed(t, q) /\ q # AllAnswered)
             => UNCHANGED <<loggers, queueVars>>]_vars

\* C20: raw write error recovery.  When the open or the write for the path
\* of the item in hand fails, the handle of that path alone leaves the
\* cache, no file loses text and the writer is back at the head of its
\* loop; the next item for a path that has failed is appended to its file
\* through a handle that is cached again, the other handles staying cached.
C20_WriteErrorRecovery ==
    [][/\ (WriterWrite("open_fails") \/ WriterWrite("write_fails"))
             => /\ open_files' = open_files \ {w_item[1]}
                /\ w_pc' = "head"
                /\ \A path \in DOMAIN files : files'[path] = files[path]
       /\ (WriterWrite("ok") /\ w_item[1] \in faulted)
             => /\ open_files' = open_files \cup {w_item[1]}
                /\ files'[w_item[1]] = Append(FileText(w_item[1]), w_item[2])]_vars

\* a path whose write failed has text written after the failure through a
\* handle that is cached again, while the handle of another path, which
\* never failed, is cached
C20_Witness ==
    \E path \in faulted, other \in open_files \ faulted :
        /\ path \in open_files
        /\ FileText(path) # <<>>
        /\ FileText(other) # <<>>

\* the positions of the banner among the texts accepted for a path
BannerAt(path) == {i \in 1..Len(accepted[path]) : accepted[path][i] = Banner}

\* C21: banner and snapshot once per log.  Over the whole run, among the
\* items accepted by the raw queue for one raw log path the banner occurs
\* at most once (and with it the snapshot that follows it), and the first
\* item accepted for the path is the banner.
C21_BannerOnceAndFirst ==
    \A path \in DOMAIN accepted :
        /\ Cardinality(BannerAt(path)) <= 1
        /\ accepted[path] # <<>> => accepted[path][1] = Banner

\* xs can be obtained from ys by leaving items out
RECURSIVE IsSubsequence(_, _)
IsSubsequence(xs, ys) ==
    IF xs = <<>> THEN TRUE
    ELSE IF ys = <<>> THEN FALSE
    ELSE IF Head(xs) = Head(ys) THEN IsSubsequence(Tail(xs), Tail(ys))
    ELSE IsSubsequence(xs, Tail(ys))

\* the raw log path of the session that a sanitized log path belongs to
RawPathOf(spath) == OriginalLog(spath[2])

\* C22: the raw log is a superset of the sanitized input.  In every state
\* the texts accepted by sanitize_queue for a session are, in order, among
\* the texts accepted by write_queue for the raw path of that session, and
\* every item in sanitize_queue has a text accepted by write_queue.
C22_RawSuperset ==
    /\ \A spath \in DOMAIN s_accepted :
          /\ RawPathOf(spath) \in DOMAIN accepted
          /\ IsSubsequence(s_accepted[spath], accepted[RawPathOf(spath)])
    /\ \A i \in 1..Len(sanitize_queue) :
          sanitize_queue[i] # None =>
             /\ RawPathOf(sanitize_queue[i][2]) \in DOMAIN accepted
             /\ \E k \in 1..Len(accepted[RawPathOf(sanitize_queue[i][2])]) :
                   accepted[RawPathOf(sanitize_queue[i][2])][k] = sanitize_queue[i][1]

\* the banner, the snapshot and the chunk of a notification have been
\* accepted by both queues, and the chunk is the newest item of
\* sanitize_queue
C22_Witness ==
    \E t \in DOMAIN loggers :
        LET path == loggers[t].filepath
            spath == loggers[t].sanitized_filepath
        IN  /\ path \in DOMAIN accepted
            /\ spath \in DOMAIN s_accepted
            /\ Len(accepted[path]) = 3
            /\ s_accepted[spath] = accepted[path]
            /\ sanitize_queue # <<>>
            /\ sanitize_queue[Len(sanitize_queue)] = <<accepted[path][3], spath>>

====
